---- MODULE Spec2Model ----
(***************************************************************************)
(* Model of RFID_Manager (legacy_rfid_manager.py): the block-oriented      *)
(* string storage protocol over a MIFARE Classic card, with the cached     *)
(* dump file the manager reads through.                                    *)
(*                                                                         *)
(* A card image is a sequence of 16-byte blocks; block number b is element *)
(* b + 1.  A text is a sequence of Unicode code points (Python str), a     *)
(* byte string is a sequence of numbers 0..255.  None is modelled by the   *)
(* empty sequence for bytes and by ok = FALSE for results.                 *)
(***************************************************************************)
EXTENDS Integers, Sequences, FiniteSets, TLC

\* ---------------------------------------------------------------- constants

BlockSize == 16
Blocks1K == 64
Blocks4K == 256
DefaultMaxLength == 3000
LongMaxLength == 10000
LegacyMaxLength == 1000
InfoMaxLength == 10000
InfoLegacyMaxLength == 1000
MaxBlocksToRead == 32
MinDumpBytes == 1024
Min4KDumpBytes == 4096

\* ---------------------------------------------------------------- helpers

Min(a, b) == IF a < b THEN a ELSE b

Zeros(n) == [i \in 1..n |-> 0]

Take(s, n) == SubSeq(s, 1, Min(n, Len(s)))

\* Python slice s[a:b] of a sequence (0-based, half-open, clipped).
Slice(s, a, b) == SubSeq(s, a + 1, Min(b, Len(s)))

IsTrailer(b) == (b + 1) % 4 = 0

\* ---------------------------------------------------------------- UTF-8

\* str.encode('utf-8') of one code point (no surrogates in the alphabet).
Utf8(cp) ==
    IF cp < 128 THEN <<cp>>
    ELSE IF cp < 2048 THEN <<192 + (cp \div 64), 128 + (cp % 64)>>
    ELSE IF cp < 65536
         THEN <<224 + (cp \div 4096), 128 + ((cp \div 64) % 64), 128 + (cp % 64)>>
         ELSE <<240 + (cp \div 262144), 128 + ((cp \div 4096) % 64),
                128 + ((cp \div 64) % 64), 128 + (cp % 64)>>

\* The UTF-8 bytes of text[lo..hi], halving the range.
RECURSIVE EncodeRange(_, _, _)
EncodeRange(text, lo, hi) ==
    IF lo > hi THEN <<>>
    ELSE IF lo = hi THEN Utf8(text[lo])
    ELSE LET mid == (lo + hi) \div 2
         IN  EncodeRange(text, lo, mid) \o EncodeRange(text, mid + 1, hi)

\* text.encode('utf-8')
Encode(text) == EncodeRange(text, 1, Len(text))

IsCont(c) == c >= 128 /\ c <= 191

\* Allowed range of the second byte after lead byte c (CPython's decoder).
SecondOk(c, d) ==
    CASE c = 224 -> d >= 160 /\ d <= 191
      [] c = 237 -> d >= 128 /\ d <= 159
      [] c = 240 -> d >= 144 /\ d <= 191
      [] c = 244 -> d >= 128 /\ d <= 143
      [] OTHER   -> IsCont(d)

\* One step of bytes.decode('utf-8', errors='ignore') at position i: the
\* number of bytes consumed and the code point produced (-1: bytes dropped).
Utf8Step(b, i) ==
    LET c == b[i]
        n == Len(b)
        need == IF c < 128 THEN 0
                ELSE IF c >= 194 /\ c <= 223 THEN 1
                ELSE IF c >= 224 /\ c <= 239 THEN 2
                ELSE IF c >= 240 /\ c <= 244 THEN 3
                ELSE -1
    IN  IF need = 0 THEN [adv |-> 1, cp |-> c]
        ELSE IF need = -1 THEN [adv |-> 1, cp |-> -1]
        ELSE IF i + 1 > n THEN [adv |-> 1, cp |-> -1]
        ELSE IF ~SecondOk(c, b[i + 1]) THEN [adv |-> 1, cp |-> -1]
        ELSE IF need = 1
             THEN [adv |-> 2, cp |-> (c - 192) * 64 + (b[i + 1] - 128)]
        ELSE IF i + 2 > n THEN [adv |-> 2, cp |-> -1]
        ELSE IF ~IsCont(b[i + 2]) THEN [adv |-> 2, cp |-> -1]
        ELSE IF need = 2
             THEN [adv |-> 3,
                   cp |-> (c - 224) * 4096 + (b[i + 1] - 128) * 64 + (b[i + 2] - 128)]
        ELSE IF i + 3 > n THEN [adv |-> 3, cp |-> -1]
        ELSE IF ~IsCont(b[i + 3]) THEN [adv |-> 3, cp |-> -1]
        ELSE [adv |-> 4,
              cp |-> (c - 240) * 262144 + (b[i + 1] - 128) * 4096
                     + (b[i + 2] - 128) * 64 + (b[i + 3] - 128)]

\* One iteration of the decoder: st = [pos, out, n] is the position in b,
\* the code points produced so far (when keep) and their number.
DecodeAdvance(st, s, keep) ==
    [pos |-> st.pos + s.adv,
     out |-> IF keep /\ s.cp # -1 THEN Append(st.out, s.cp) ELSE st.out,
     n |-> IF s.cp # -1 THEN st.n + 1 ELSE st.n]

DecodeStep(st, b, keep) ==
    IF st.pos > Len(b) THEN st ELSE DecodeAdvance(st, Utf8Step(b, st.pos), keep)

\* k iterations of the decoder, split in halves to keep the evaluation
\* shallow; an iteration at the end of b changes nothing, so the second
\* half is skipped when the first half has reached the end.
RECURSIVE DecodeRepeat(_, _, _, _)
DecodeRepeat(st, k, b, keep) ==
    IF k <= 0 THEN st
    ELSE IF k = 1 THEN DecodeStep(st, b, keep)
    ELSE LET half == DecodeRepeat(st, k \div 2, b, keep)
         IN  IF half.pos > Len(b) THEN half
             ELSE DecodeRepeat(half, k - (k \div 2), b, keep)

\* raw_bytes.decode("utf-8", errors="ignore")
Decode(b) == DecodeRepeat([pos |-> 1, out |-> <<>>, n |-> 0], Len(b), b, TRUE).out

\* len(raw_bytes.decode("utf-8", errors="ignore"))
DecodeLen(b) == DecodeRepeat([pos |-> 1, out |-> <<>>, n |-> 0], Len(b), b, FALSE).n

\* ---------------------------------------------------------------- the card

\* max_blocks of write_string / read_string for the card on the reader.
MaxBlocks(is4k) == IF is4k THEN Blocks4K ELSE Blocks1K

\* ---------------------------------------------------------------- block I/O

\* A read_card_raw whose cache file is left holding zeros when the dump of
\* the card is taken: the caller gets the card's data, later calls the file.
ReadCardRawZeroCache(dev, is4k, toolOk) ==
    IF Len(dev.dump) * BlockSize >= MinDumpBytes
    THEN [data |-> dev.dump, dev |-> dev]
    ELSE IF toolOk
    THEN [data |-> dev.card,
          dev |-> [dev EXCEPT !.dump = [i \in 1..Len(dev.card) |-> Zeros(BlockSize)]]]
    ELSE [data |-> <<>>, dev |-> dev]

\* read_card_raw: the cached dump if there is one, else a fresh dump of the
\* card (or, for a 4K card, a copy of /tmp/card4k.mfd when that file holds a
\* 4K dump).  dev = [card, dump, good]; toolOk: the dump tool delivers.
ReadCardRaw(dev, is4k, toolOk) ==
    IF Len(dev.dump) * BlockSize >= MinDumpBytes
    THEN [data |-> dev.dump, dev |-> dev]
    ELSE IF is4k /\ Len(dev.good) * BlockSize >= Min4KDumpBytes
    THEN [data |-> dev.good, dev |-> [dev EXCEPT !.dump = dev.good]]
    ELSE IF toolOk
    THEN [data |-> dev.card, dev |-> [dev EXCEPT !.dump = dev.card]]
    ELSE [data |-> <<>>, dev |-> dev]

\* The block of read_block once read_card_raw has returned raw.
BlockOfDump(raw, b) ==
    IF raw.data # <<>> /\ Len(raw.data) * BlockSize >= (b + 1) * BlockSize
    THEN [data |-> raw.data[b + 1], dev |-> raw.dev]
    ELSE [data |-> <<>>, dev |-> raw.dev]

\* read_block: data = <<>> models None.
ReadBlockOp(dev, is4k, b, toolOk) ==
    IF ~(0 <= b /\ b <= MaxBlocks(is4k) - 1)
    THEN [data |-> <<>>, dev |-> dev]
    ELSE BlockOfDump(ReadCardRaw(dev, is4k, toolOk), b)

\* card_data[start:start+16] = data on a bytearray holding whole blocks: a
\* slice past the end appends.
PatchImage(img, b, data) ==
    IF b + 1 <= Len(img) THEN [img EXCEPT ![b + 1] = data] ELSE Append(img, data)

\* nfc-mfclassic w A u <file>: the image goes to the card, block 0 excepted.
CardAfterWrite(card, img) ==
    [i \in 1..Len(card) |-> IF i = 1 \/ i > Len(img) THEN card[i] ELSE img[i]]

\* b'TEST-4K' in block_data
DemoPattern == <<84, 69, 83, 84, 45, 52, 75>>

HasDemoPattern(blk) ==
    \E k \in 1..(Len(blk) - Len(DemoPattern) + 1) :
        SubSeq(blk, k, k + Len(DemoPattern) - 1) = DemoPattern

\* The verification of _write_single_block_4k: ver is the block read back.
Verified4k(ver, data) == [ok |-> ver.data = data, dev |-> ver.dev]

\* _write_single_block_4k after the write tool has run: dev2 is the device
\* then, blockData the block as the dump taken before the write had it.
AfterWrite4k(dev2, blockData, b, data) ==
    IF blockData # <<>> /\ HasDemoPattern(blockData)
    THEN [ok |-> FALSE, dev |-> dev2]
    ELSE Verified4k(ReadBlockOp([dev2 EXCEPT !.dump = <<>>], TRUE, b, TRUE), data)

\* _write_single_block_4k with orig the dump it starts from.
Write4kFrom(orig, dev, b, data, fault) ==
    IF orig.data = <<>> THEN [ok |-> FALSE, dev |-> dev]
    ELSE AfterWrite4k(
             [orig.dev EXCEPT
                !.card = IF fault = "writefail" THEN dev.card
                         ELSE CardAfterWrite(dev.card, PatchImage(orig.data, b, data))],
             IF b + 1 <= Len(orig.data) THEN orig.data[b + 1] ELSE <<>>,
             b, data)

\* _write_single_block_4k; fault is "none", "readfail" or "writefail".
WriteSingleBlock4k(dev, b, data, fault) ==
    Write4kFrom(ReadCardRaw(dev, TRUE, fault # "readfail"), dev, b, data, fault)

\* The 4K path of write_block: r is what _write_single_block_4k returned.
Write4kDone(r) ==
    IF r.ok THEN [ok |-> TRUE, dev |-> [r.dev EXCEPT !.dump = <<>>]]
    ELSE [ok |-> FALSE, dev |-> r.dev]

\* A 1K path that leaves the cached dump in place after a successful write.
Write1kFromKeepDump(raw, dev, b, data, fault) ==
    IF raw.data = <<>> THEN [ok |-> FALSE, dev |-> dev]
    ELSE IF fault = "writefail"
    THEN [ok |-> FALSE, dev |-> [raw.dev EXCEPT !.dump = <<>>]]
    ELSE [ok |-> TRUE,
          dev |-> [raw.dev EXCEPT
                     !.card = CardAfterWrite(dev.card, PatchImage(raw.data, b, data))]]

\* The 1K path of write_block: raw is the dump it patches.
Write1kFrom(raw, dev, b, data, fault) ==
    IF raw.data = <<>> THEN [ok |-> FALSE, dev |-> dev]
    ELSE IF fault = "writefail"
    THEN [ok |-> FALSE, dev |-> [raw.dev EXCEPT !.dump = <<>>]]
    ELSE [ok |-> TRUE,
          dev |-> [raw.dev EXCEPT
                     !.card = CardAfterWrite(dev.card, PatchImage(raw.data, b, data)),
                     !.dump = <<>>]]

\* write_block; confirm answers the trailer-block prompt.
WriteBlockOp(dev, is4k, b, data, confirm, fault) ==
    IF Len(data) # BlockSize THEN [ok |-> FALSE, dev |-> dev]
    ELSE IF ~(0 <= b /\ b <= MaxBlocks(is4k) - 1) THEN [ok |-> FALSE, dev |-> dev]
    ELSE IF b = 0 THEN [ok |-> FALSE, dev |-> dev]
    ELSE IF IsTrailer(b) /\ ~confirm THEN [ok |-> FALSE, dev |-> dev]
    ELSE IF is4k THEN Write4kDone(WriteSingleBlock4k(dev, b, data, fault))
    ELSE Write1kFrom(ReadCardRaw(dev, FALSE, fault # "readfail"), dev, b, data, fault)

\* ---------------------------------------------------------------- write_string

\* The 4-byte big-endian length header.
Header4(n) ==
    <<(n \div 16777216) % 256, (n \div 65536) % 256, (n \div 256) % 256, n % 256>>

\* A padding that adds a whole block of zeros to data that already ends on
\* a block boundary.
PadToBlockAlways(data) ==
    data \o Zeros(BlockSize - (Len(data) % BlockSize))

\* while len(data) % 16 != 0: data.append(0)
PadToBlock(data) ==
    data \o Zeros((BlockSize - (Len(data) % BlockSize)) % BlockSize)

\* A record whose header stores the UTF-8 byte count of the text.
RecordBytesByteCount(text) == PadToBlock(Header4(Len(Encode(text))) \o Encode(text))

\* A record with the 2-byte header of the earlier format.
RecordBytesShortHeader(text) ==
    PadToBlock(<<(Len(text) \div 256) % 256, Len(text) % 256>> \o Encode(text))

\* Header, UTF-8 bytes of the text, zero padding.
RecordBytes(text) == PadToBlock(Header4(Len(text)) \o Encode(text))

\* A scan that takes trailer blocks too.
AvailableStepNoSkip(st, needed, maxBlocks) ==
    IF ~(Len(st.acc) < needed /\ st.current < maxBlocks) THEN st
    ELSE [acc |-> Append(st.acc, st.current), current |-> st.current + 1]

\* One iteration of the scan for available blocks, which skips trailer
\* blocks: st = [acc, current].
AvailableStep(st, needed, maxBlocks) ==
    IF ~(Len(st.acc) < needed /\ st.current < maxBlocks) THEN st
    ELSE IF IsTrailer(st.current) THEN [st EXCEPT !.current = st.current + 1]
    ELSE [acc |-> Append(st.acc, st.current), current |-> st.current + 1]

RECURSIVE AvailableRepeat(_, _, _, _)
AvailableRepeat(st, k, needed, maxBlocks) ==
    IF k <= 0 THEN st
    ELSE IF k = 1 THEN AvailableStep(st, needed, maxBlocks)
    ELSE LET half == AvailableRepeat(st, k \div 2, needed, maxBlocks)
         IN  IF half.current = half.current THEN AvailableRepeat(half, k - (k \div 2), needed, maxBlocks)
             ELSE half

\* The while loop that fills available_blocks: every iteration advances
\* current_block, so maxBlocks - current iterations end it.
AvailableBlocks(current, needed, maxBlocks) ==
    AvailableRepeat([acc |-> <<>>, current |-> current],
                    maxBlocks - current, needed, maxBlocks).acc

\* One iteration of the chunk loop of write_string: st = [dev, i, attempts,
\* writes, ok]; the failAt-th write_block call meets a failing write tool
\* (0: none does).  ChunkWritten is the state after write_block returned w.
ChunkWritten(st, blockNum, w) ==
    [dev |-> w.dev,
     i |-> st.i + 1,
     attempts |-> Append(st.attempts, blockNum),
     writes |-> IF w.ok THEN Append(st.writes, blockNum) ELSE st.writes,
     ok |-> w.ok]

\* A chunk loop that goes on after a failed write_block.
WriteChunkStepKeepGoing(st, is4k, plan, data, failAt) ==
    IF st.i > Len(data) \div BlockSize THEN st
    ELSE ChunkWritten(st, plan[st.i],
                      WriteBlockOp(st.dev, is4k, plan[st.i],
                                   Slice(data, (st.i - 1) * BlockSize, st.i * BlockSize),
                                   FALSE,
                                   IF st.i = failAt THEN "writefail" ELSE "none"))

WriteChunkStep(st, is4k, plan, data, failAt) ==
    IF ~st.ok \/ st.i > Len(data) \div BlockSize THEN st
    ELSE ChunkWritten(st, plan[st.i],
                      WriteBlockOp(st.dev, is4k, plan[st.i],
                                   Slice(data, (st.i - 1) * BlockSize, st.i * BlockSize),
                                   FALSE,
                                   IF st.i = failAt THEN "writefail" ELSE "none"))

RECURSIVE WriteChunkRepeat(_, _, _, _, _, _)
WriteChunkRepeat(st, k, is4k, plan, data, failAt) ==
    IF k <= 0 THEN st
    ELSE IF k = 1 THEN WriteChunkStep(st, is4k, plan, data, failAt)
    ELSE LET half == WriteChunkRepeat(st, k \div 2, is4k, plan, data, failAt)
         IN  IF half.ok = half.ok
             THEN WriteChunkRepeat(half, k - (k \div 2), is4k, plan, data, failAt)
             ELSE half

\* for i in range(chunks_needed): ... return False at the first failure.
WriteChunks(dev, is4k, plan, data, failAt) ==
    WriteChunkRepeat([dev |-> dev, i |-> 1, attempts |-> <<>>, writes |-> <<>>,
                      ok |-> TRUE],
                     Len(data) \div BlockSize, is4k, plan, data, failAt)

\* What write_string returns without having called write_block.
Rejected(dev, plan, needed) ==
    [ok |-> FALSE, plan |-> plan, needed |-> needed,
     attempts |-> <<>>, writes |-> <<>>, dev |-> dev]

\* What write_string returns after the chunk loop ended in state w.
Written(w, plan) ==
    [ok |-> w.ok, plan |-> plan, needed |-> Len(plan),
     attempts |-> w.attempts, writes |-> w.writes, dev |-> w.dev]

\* A write_string without the capacity check: the chunks the plan has blocks
\* for are written.
WritePlannedUnchecked(dev, is4k, data, plan, failAt) ==
    Written(WriteChunks(dev, is4k, plan, Take(data, Len(plan) * BlockSize), failAt), plan)

\* write_string from the capacity check on: data is the padded record, plan
\* the available blocks found for it.
WritePlanned(dev, is4k, data, plan, failAt) ==
    IF Len(plan) < Len(data) \div BlockSize
    THEN Rejected(dev, plan, Len(data) \div BlockSize)
    ELSE Written(WriteChunks(dev, is4k, plan, data, failAt), plan)

\* write_string from the building of the record on.
WriteRecord(dev, is4k, start, data, failAt) ==
    WritePlanned(dev, is4k, data,
                 AvailableBlocks(start, Len(data) \div BlockSize, MaxBlocks(is4k)),
                 failAt)

\* A write_string that refuses a trailer block as start block.
WriteStringStrict(dev, is4k, startBlock, text, maxLength, failAt) ==
    IF Len(text) > maxLength THEN Rejected(dev, <<>>, 0)
    ELSE IF startBlock = 0 \/ IsTrailer(startBlock) THEN Rejected(dev, <<>>, 0)
    ELSE WriteRecord(dev, is4k, startBlock, RecordBytes(text), failAt)

\* A write_string without its input validation.
WriteStringNoPreflight(dev, is4k, startBlock, text, maxLength, failAt) ==
    WriteRecord(dev, is4k,
                IF IsTrailer(startBlock) THEN startBlock + 1 ELSE startBlock,
                RecordBytes(text), failAt)

\* write_string(start_block, text, max_length)
WriteStringOp(dev, is4k, startBlock, text, maxLength, failAt) ==
    IF Len(text) > maxLength THEN Rejected(dev, <<>>, 0)
    ELSE IF startBlock = 0 THEN Rejected(dev, <<>>, 0)
    ELSE WriteRecord(dev, is4k,
                     IF IsTrailer(startBlock) THEN startBlock + 1 ELSE startBlock,
                     RecordBytes(text), failAt)

\* write_long_string: the first block of the sector, block 1 for sector 0.
LongStartBlock(startSector) == IF startSector = 0 THEN 1 ELSE startSector * 4

WriteLongStringOp(dev, is4k, startSector, text, failAt) ==
    WriteStringOp(dev, is4k, LongStartBlock(startSector), text, LongMaxLength, failAt)

\* ---------------------------------------------------------------- read_string

\* (b[0] << 24) | (b[1] << 16) | (b[2] << 8) | b[3].  The model's integers
\* are 32 bits wide: a value of 2^30 or more is represented by 2^30, which
\* is above every max_length.
BigEndian4(blk) ==
    IF blk[1] >= 64 THEN 1073741824
    ELSE blk[1] * 16777216 + blk[2] * 65536 + blk[3] * 256 + blk[4]

\* A format detection that knows the 4-byte header only.
DetectHeaderNewOnly(blk, maxLength) ==
    IF 0 < BigEndian4(blk) /\ BigEndian4(blk) <= maxLength /\ blk[1] = 0
    THEN [fmt |-> "new", charCount |-> BigEndian4(blk), headerSize |-> 4]
    ELSE [fmt |-> "none", charCount |-> 0, headerSize |-> 0]

\* Format detection on the start block: fmt "new", "old" or "none".
DetectHeader(blk, maxLength) ==
    LET length4 == BigEndian4(blk)
        length2 == blk[1] * 256 + blk[2]
    IN  IF 0 < length4 /\ length4 <= maxLength
           /\ (blk[1] = 0 \/ (blk[1] = 0 /\ blk[2] = 0))
        THEN [fmt |-> "new", charCount |-> length4, headerSize |-> 4]
        ELSE IF 0 < length2 /\ length2 <= LegacyMaxLength
        THEN [fmt |-> "old", charCount |-> length2, headerSize |-> 2]
        ELSE [fmt |-> "none", charCount |-> 0, headerSize |-> 0]

\* The format detection of get_string_info.
DetectInfoHeader(blk) ==
    LET length4 == BigEndian4(blk)
        length2 == blk[1] * 256 + blk[2]
    IN  IF 0 < length4 /\ length4 <= InfoMaxLength
           /\ (blk[1] = 0 \/ (blk[1] = 0 /\ blk[2] = 0))
        THEN [fmt |-> "new", charCount |-> length4, headerSize |-> 4]
        ELSE IF 0 < length2 /\ length2 <= InfoLegacyMaxLength
        THEN [fmt |-> "old", charCount |-> length2, headerSize |-> 2]
        ELSE [fmt |-> "none", charCount |-> 0, headerSize |-> 0]

\* get_string_info once the start block is read: ok = FALSE models the
\* {"error": ...} result, fmt and charCount the "format" and "length" entries.
InfoFromFirst(first, h) ==
    [ok |-> first.data # <<>> /\ h.fmt # "none", fmt |-> h.fmt,
     charCount |-> h.charCount, headerSize |-> h.headerSize,
     first |-> first.data, dev |-> first.dev]

\* get_string_info(start_block)
GetStringInfoOp(dev, is4k, startBlock, toolOk) ==
    IF ReadBlockOp(dev, is4k, startBlock, toolOk).data = <<>>
    THEN InfoFromFirst(ReadBlockOp(dev, is4k, startBlock, toolOk),
                       [fmt |-> "none", charCount |-> 0, headerSize |-> 0])
    ELSE InfoFromFirst(ReadBlockOp(dev, is4k, startBlock, toolOk),
                       DetectInfoHeader(ReadBlockOp(dev, is4k, startBlock, toolOk).data))

\* The walk once the decoded length n of the bytes collected is known.
WalkCounted(st, n, charCount) ==
    IF n >= charCount THEN [st EXCEPT !.chars = n, !.done = TRUE]
    ELSE [st EXCEPT !.chars = n, !.cur = st.cur + 1]

\* A walk that takes every all-zero block for the end of the data.
WalkBlockStopAtZero(st, r, charCount) ==
    IF r.data = <<>>
    THEN [st EXCEPT !.dev = r.dev, !.readFailed = TRUE, !.done = TRUE]
    ELSE IF r.data = Zeros(BlockSize)
    THEN [st EXCEPT !.dev = r.dev, !.blocksRead = st.blocksRead + 1, !.done = TRUE]
    ELSE WalkCounted([st EXCEPT !.dev = r.dev, !.blocksRead = st.blocksRead + 1,
                                !.raw = st.raw \o r.data],
                     DecodeLen(st.raw \o r.data), charCount)

\* The walk once read_block has returned r for the current block.
WalkBlock(st, r, charCount) ==
    IF r.data = <<>>
    THEN [st EXCEPT !.dev = r.dev, !.readFailed = TRUE, !.done = TRUE]
    ELSE IF r.data = Zeros(BlockSize) /\ DecodeLen(st.raw) >= charCount
    THEN [st EXCEPT !.dev = r.dev, !.blocksRead = st.blocksRead + 1, !.done = TRUE]
    ELSE WalkCounted([st EXCEPT !.dev = r.dev, !.blocksRead = st.blocksRead + 1,
                                !.raw = st.raw \o r.data],
                     DecodeLen(st.raw \o r.data), charCount)

\* An iteration of a walk with no ceiling on the blocks read.
ReadWalkStepNoCeiling(st, is4k, charCount, limit, toolOk, timeoutAt) ==
    IF st.done THEN st
    ELSE IF ~(st.chars < charCount /\ st.cur < MaxBlocks(is4k))
    THEN [st EXCEPT !.done = TRUE]
    ELSE IF st.iter = timeoutAt THEN [st EXCEPT !.timedOut = TRUE, !.done = TRUE]
    ELSE IF IsTrailer(st.cur)
    THEN [st EXCEPT !.cur = st.cur + 1, !.iter = st.iter + 1]
    ELSE WalkBlock([st EXCEPT !.reads = Append(st.reads, st.cur), !.iter = st.iter + 1],
                   ReadBlockOp(st.dev, is4k, st.cur, toolOk), charCount)

\* One iteration of the block walk of read_string: st = [dev, raw, cur,
\* chars, blocksRead, iter, reads, timedOut, readFailed, done]; the timeout
\* check fires in iteration timeoutAt (0: never).
ReadWalkStep(st, is4k, charCount, limit, toolOk, timeoutAt) ==
    IF st.done THEN st
    ELSE IF ~(st.chars < charCount /\ st.cur < MaxBlocks(is4k) /\ st.blocksRead < limit)
    THEN [st EXCEPT !.done = TRUE]
    ELSE IF st.iter = timeoutAt THEN [st EXCEPT !.timedOut = TRUE, !.done = TRUE]
    ELSE IF IsTrailer(st.cur)
    THEN [st EXCEPT !.cur = st.cur + 1, !.iter = st.iter + 1]
    ELSE WalkBlock([st EXCEPT !.reads = Append(st.reads, st.cur), !.iter = st.iter + 1],
                   ReadBlockOp(st.dev, is4k, st.cur, toolOk), charCount)

RECURSIVE ReadWalkRepeat(_, _, _, _, _, _, _)
ReadWalkRepeat(st, k, is4k, charCount, limit, toolOk, timeoutAt) ==
    IF k <= 0 THEN st
    ELSE IF k = 1 THEN ReadWalkStep(st, is4k, charCount, limit, toolOk, timeoutAt)
    ELSE LET half == ReadWalkRepeat(st, k \div 2, is4k, charCount, limit, toolOk, timeoutAt)
         IN  IF half.done THEN half
             ELSE ReadWalkRepeat(half, k - (k \div 2), is4k, charCount, limit, toolOk,
                                 timeoutAt)

\* The while loop of read_string: an iteration reads a block (at most limit
\* of them) or skips a trailer block (never two in a row), so 2 * limit + 2
\* iterations end it.
ReadWalk(st, is4k, charCount, limit, toolOk, timeoutAt) ==
    ReadWalkRepeat(st, 2 * limit + 2, is4k, charCount, limit, toolOk, timeoutAt)

\* What read_string returns when it returns None after reading the start
\* block (first).
NoString(first, startBlock) ==
    [ok |-> FALSE, result |-> <<>>, fmt |-> "none", charCount |-> 0,
     headerSize |-> 0, first |-> first.data, raw |-> <<>>,
     reads |-> <<startBlock>>, timedOut |-> FALSE, readFailed |-> FALSE,
     finished |-> TRUE, dev |-> first.dev]

\* A read_string that returns everything the bytes collected decode to.
AssembledWhole(first, startBlock, h, w) ==
    [NoString(first, startBlock) EXCEPT
        !.ok = TRUE, !.fmt = h.fmt, !.charCount = h.charCount,
        !.headerSize = h.headerSize,
        !.result = Decode(w.raw),
        !.raw = w.raw, !.reads = w.reads,
        !.timedOut = w.timedOut, !.readFailed = w.readFailed,
        !.finished = w.done, !.dev = w.dev]

\* The final decoding of read_string: w is the state the walk ended in.
Assembled(first, startBlock, h, w) ==
    [NoString(first, startBlock) EXCEPT
        !.ok = TRUE, !.fmt = h.fmt, !.charCount = h.charCount,
        !.headerSize = h.headerSize,
        !.result = Take(Decode(w.raw), h.charCount),
        !.raw = w.raw, !.reads = w.reads,
        !.timedOut = w.timedOut, !.readFailed = w.readFailed,
        !.finished = w.done, !.dev = w.dev]

\* read_string once the header h of the start block is detected.
ReadWithHeader(first, h, is4k, startBlock, maxLength, toolOk, timeoutAt) ==
    IF h.fmt = "none" THEN NoString(first, startBlock)
    ELSE IF h.charCount = 0
    THEN [NoString(first, startBlock) EXCEPT !.ok = TRUE, !.fmt = h.fmt,
                                             !.headerSize = h.headerSize]
    ELSE IF h.charCount > maxLength
    THEN [NoString(first, startBlock) EXCEPT !.fmt = h.fmt, !.charCount = h.charCount,
                                             !.headerSize = h.headerSize]
    ELSE Assembled(first, startBlock, h,
             ReadWalk([dev |-> first.dev,
                       raw |-> Slice(first.data, h.headerSize,
                                     h.headerSize + (BlockSize - h.headerSize)),
                       cur |-> startBlock + 1,
                       chars |-> 0, blocksRead |-> 0, iter |-> 1,
                       reads |-> <<startBlock>>, timedOut |-> FALSE,
                       readFailed |-> FALSE, done |-> FALSE],
                      is4k, h.charCount,
                      Min(MaxBlocksToRead, MaxBlocks(is4k) - startBlock),
                      toolOk, timeoutAt))

\* read_string once the start block is read.
ReadFromFirst(first, is4k, startBlock, maxLength, toolOk, timeoutAt) ==
    IF first.data = <<>> THEN [NoString(first, startBlock) EXCEPT !.readFailed = TRUE]
    ELSE ReadWithHeader(first, DetectHeader(first.data, maxLength),
                        is4k, startBlock, maxLength, toolOk, timeoutAt)

\* read_string(start_block, max_length); ok = FALSE models None.
ReadStringOp(dev, is4k, startBlock, maxLength, toolOk, timeoutAt) ==
    ReadFromFirst(ReadBlockOp(dev, is4k, startBlock, toolOk),
                  is4k, startBlock, maxLength, toolOk, timeoutAt)

\* ---------------------------------------------------------------- inputs

\* Block 0 of a card (UID and manufacturer data) and a sector trailer.
ManufacturerBlock == <<222, 173, 190, 239, 34, 8, 4, 0, 98, 99, 100, 101, 102, 103, 104, 105>>
TrailerBlock == <<255, 255, 255, 255, 255, 255, 255, 7, 128, 105, 255, 255, 255, 255, 255, 255>>

\* Left-over data of no format: stray continuation bytes, broken and
\* complete multi-byte sequences.
NoiseBlock == <<169, 65, 195, 40, 226, 130, 0, 240, 159, 152, 128, 66, 237, 160, 128, 255>>

ImageOf(n, dataBlock) ==
    [i \in 1..n |-> IF i = 1 THEN ManufacturerBlock
                    ELSE IF IsTrailer(i - 1) THEN TrailerBlock
                    ELSE dataBlock]

\* A card holding a record of the 2-byte-header format at block start.
LegacyBytes(t) == PadToBlock(<<Len(t) \div 256, Len(t) % 256>> \o Encode(t))

LegacyFits(n, start, t) ==
    /\ start >= 1 /\ start < n /\ ~IsTrailer(start)
    /\ Len(t) > 0 /\ Len(t) <= LegacyMaxLength
    /\ Len(AvailableBlocks(start, Len(LegacyBytes(t)) \div BlockSize, n))
         = Len(LegacyBytes(t)) \div BlockSize

LegacyImage(n, start, t) ==
    LET bytes == LegacyBytes(t)
        plan == AvailableBlocks(start, Len(bytes) \div BlockSize, n)
        blank == ImageOf(n, Zeros(BlockSize))
    IN  [i \in 1..n |->
            IF \E k \in 1..Len(plan) : plan[k] = i - 1
            THEN LET k == CHOOSE k \in 1..Len(plan) : plan[k] = i - 1
                 IN  Slice(bytes, (k - 1) * BlockSize, k * BlockSize)
            ELSE blank[i]]

AsciiPat(n) == [i \in 1..n |-> 97 + ((i - 1) % 26)]

\* A text of one character more than the default max_length of read_string,
\* and the 4K card an earlier write_long_string(text, start_sector = 1) of it
\* on a blank card leaves.
LongRecordText == AsciiPat(DefaultMaxLength + 1)

LongRecordImage ==
    WriteLongStringOp([card |-> ImageOf(Blocks4K, Zeros(BlockSize)),
                       dump |-> <<>>, good |-> <<>>],
                      TRUE, 1, LongRecordText, 0).dev.card

\* e-acute, a, euro sign, an emoji, NUL, z: UTF-8 widths 2, 1, 3, 4, 1, 1.
Alphabet == <<233, 97, 8364, 128512, 0, 122>>
MixedPat(n) == [i \in 1..n |-> Alphabet[((i - 1) % Len(Alphabet)) + 1]]

\* Sixteen emoji, four UTF-8 bytes each.
WidePat(n) == [i \in 1..n |-> 128512 + ((i - 1) % 16)]

Hello == <<72, 101, 108, 108, 111, 44, 32, 119, 111, 114, 108, 100, 33>>
Uni5 == <<233, 233, 233, 97, 98>>

\* The number of payload bytes the block walk of read_string can collect:
\* the rest of the start block and MaxBlocksToRead further blocks.
WalkCapacity == (BlockSize - 4) + MaxBlocksToRead * BlockSize

\* A text whose UTF-8 encoding is longer than that.
LongText == WidePat((WalkCapacity \div 4) + 1)

MaxMixedLen == 1
SmallMaxLength == 10
MaxUsedCardText == 30
MaxFailAt == 2
MaxTimeoutAt == 1

Texts ==
    {MixedPat(n) : n \in 0..MaxMixedLen}
    \cup {Hello, Uni5, AsciiPat(12), MixedPat(30), LongText}

\* The strings of a session with the card on the reader: the long text goes
\* to the 1K card.
TextsOn(is4kCard) == IF is4kCard THEN Texts \ {LongText} ELSE Texts

StartBlocks(is4kCard) ==
    {-5, -1, 0, 4, 7, MaxBlocks(is4kCard) - 2, MaxBlocks(is4kCard) - 1}

MaxLengths == {DefaultMaxLength, SmallMaxLength}

\* The cards a session starts with: blank; for the texts of at most
\* MaxMixedLen characters, a 4K card holding a long record; for the texts of
\* at most MaxUsedCardText characters, a 1K card full of left-over data or
\* holding the caller's text as a record of the 2-byte-header format.
Images(is4kCard, start, t) ==
    IF is4kCard
    THEN {ImageOf(Blocks4K, Zeros(BlockSize))}
         \cup (IF Len(t) <= MaxMixedLen /\ start = LongStartBlock(1)
               THEN {LongRecordImage} ELSE {})
    ELSE {ImageOf(Blocks1K, Zeros(BlockSize))}
         \cup (IF Len(t) <= MaxUsedCardText
               THEN {ImageOf(Blocks1K, NoiseBlock)} ELSE {})
         \cup (IF Len(t) <= MaxUsedCardText /\ LegacyFits(Blocks1K, start, t)
               THEN {LegacyImage(Blocks1K, start, t)} ELSE {})

\* /tmp/card4k.mfd at the start of a session: absent, or, in the sessions
\* with a text of at most MaxMixedLen characters, a dump taken of an earlier
\* content of a 4K card (the file is read for 4K cards only).
GoodDumps(is4kCard, t) ==
    IF is4kCard /\ Len(t) <= MaxMixedLen
    THEN {<<>>, ImageOf(Blocks4K, NoiseBlock)} ELSE {<<>>}

\* ---------------------------------------------------------------- state

VARIABLES
    is4k,        \* the card on the reader is a MIFARE Classic 4K
    card,        \* the blocks of the card
    dump,        \* the cached dump file (temp_file); <<>>: no file
    good,        \* /tmp/card4k.mfd; <<>>: no file
    text,        \* the caller's string
    startBlock,  \* the caller's start block
    maxLength,   \* the caller's max_length
    stored,      \* the last write_string returned True and the card is as it left it
    storedLong,  \* the same for the last write_long_string
    store,       \* where example_5_data_storage stands, and what it read back
    sensor,      \* the fingerprint sensor and the finger on it
    last         \* the last call and what it returned

vars == <<is4k, card, dump, good, text, startBlock, maxLength, stored, storedLong,
          store, sensor, last>>

\* The programs that call the manager or stand beside it; a session of
\* plain manager calls leaves them as they are.
callers == <<store, sensor>>

NoStore == [pc |-> "idle", item |-> 0, plans |-> <<>>, back |-> <<>>, clean |-> TRUE]

\* stored_ids of the crypto object, and the last ciphertext it gave out as
\* the key and the message it was made of (<<>>: none)
NoSensor == [storedIds |-> {}, cipher |-> <<>>]

Dev == [card |-> card, dump |-> dump, good |-> good]

NoCall ==
    [op |-> "init", ok |-> FALSE, result |-> <<>>, plan |-> <<>>, needed |-> 0,
     attempts |-> <<>>, writes |-> <<>>, reads |-> <<>>, fmt |-> "none",
     charCount |-> 0, headerSize |-> 0, first |-> <<>>, raw |-> <<>>,
     timedOut |-> FALSE, readFailed |-> FALSE, finished |-> FALSE, failAt |-> 0,
     cardChanged |-> FALSE, dumpChanged |-> FALSE,
     again |-> FALSE, prevOk |-> FALSE, prevResult |-> <<>>,
     data |-> <<>>, sent |-> FALSE, before |-> <<>>,
     identity |-> -1, derived |-> FALSE, authFailed |-> FALSE]

Init ==
    /\ is4k \in BOOLEAN
    /\ startBlock \in StartBlocks(is4k)
    /\ text \in TextsOn(is4k)
    /\ maxLength \in MaxLengths
    /\ card \in Images(is4k, startBlock, text)
    /\ dump = <<>>
    /\ good \in GoodDumps(is4k, text)
    /\ stored = FALSE
    /\ storedLong = FALSE
    /\ store = NoStore
    /\ sensor = NoSensor
    /\ last = NoCall

\* ---------------------------------------------------------------- actions

\* rfid.write_string(startBlock, text, maxLength)
WriteString(failAt) ==
    \E r \in {WriteStringOp(Dev, is4k, startBlock, text, maxLength, failAt)} :
        /\ card' = r.dev.card
        /\ dump' = r.dev.dump
        /\ good' = r.dev.good
        /\ stored' = IF r.ok THEN TRUE ELSE stored /\ r.dev.card = card
        /\ storedLong' = (storedLong /\ r.dev.card = card)
        /\ last' = [NoCall EXCEPT !.op = "write_string", !.ok = r.ok, !.plan = r.plan,
                                  !.needed = r.needed, !.attempts = r.attempts,
                                  !.writes = r.writes, !.failAt = failAt,
                                  !.cardChanged = (r.dev.card # card),
                                  !.dumpChanged = (r.dev.dump # dump)]
        /\ UNCHANGED <<is4k, text, startBlock, maxLength, callers>>

\* rfid.write_long_string(text, start_sector) for the sector that starts at
\* startBlock
WriteLongString(failAt) ==
    /\ startBlock >= 0
    /\ startBlock % 4 = 0
    /\ \E r \in {WriteLongStringOp(Dev, is4k, startBlock \div 4, text, failAt)} :
        /\ card' = r.dev.card
        /\ dump' = r.dev.dump
        /\ good' = r.dev.good
        /\ stored' = (stored /\ r.dev.card = card)
        /\ storedLong' = IF r.ok THEN TRUE ELSE storedLong /\ r.dev.card = card
        /\ last' = [NoCall EXCEPT !.op = "write_long_string", !.ok = r.ok, !.plan = r.plan,
                                  !.needed = r.needed, !.attempts = r.attempts,
                                  !.writes = r.writes, !.failAt = failAt,
                                  !.cardChanged = (r.dev.card # card),
                                  !.dumpChanged = (r.dev.dump # dump)]
        /\ UNCHANGED <<is4k, text, startBlock, maxLength, callers>>

\* rfid.read_string(startBlock, maxLength)
ReadString(toolOk, timeoutAt) ==
    \E r \in {ReadStringOp(Dev, is4k, startBlock, maxLength, toolOk, timeoutAt)} :
        /\ card' = r.dev.card
        /\ dump' = r.dev.dump
        /\ good' = r.dev.good
        /\ last' = [NoCall EXCEPT !.op = "read_string", !.ok = r.ok, !.result = r.result,
                                  !.reads = r.reads, !.fmt = r.fmt,
                                  !.charCount = r.charCount, !.headerSize = r.headerSize,
                                  !.first = r.first, !.raw = r.raw,
                                  !.timedOut = r.timedOut, !.readFailed = r.readFailed,
                                  !.finished = r.finished,
                                  !.cardChanged = (r.dev.card # card),
                                  !.dumpChanged = (r.dev.dump # dump),
                                  !.again = (toolOk /\ timeoutAt = 0 /\ last.op = "read_string"
                                             /\ ~last.timedOut /\ ~last.readFailed),
                                  !.prevOk = last.ok, !.prevResult = last.result]
        /\ UNCHANGED <<is4k, text, startBlock, maxLength, stored, storedLong, callers>>

\* rfid.get_string_info(startBlock)
GetStringInfo(toolOk) ==
    \E r \in {GetStringInfoOp(Dev, is4k, startBlock, toolOk)} :
        /\ card' = r.dev.card
        /\ dump' = r.dev.dump
        /\ good' = r.dev.good
        /\ last' = [NoCall EXCEPT !.op = "get_string_info", !.ok = r.ok, !.fmt = r.fmt,
                                  !.charCount = r.charCount,
                                  !.headerSize = r.headerSize, !.first = r.first,
                                  !.dumpChanged = (r.dev.dump # dump)]
        /\ UNCHANGED <<is4k, text, startBlock, maxLength, stored, storedLong, callers>>

\* rfid.refresh_cache()
RefreshCache ==
    /\ dump' = <<>>
    /\ last' = [NoCall EXCEPT !.op = "refresh_cache", !.ok = TRUE,
                              !.dumpChanged = (dump # <<>>)]
    /\ UNCHANGED <<is4k, card, good, text, startBlock, maxLength, stored, storedLong, callers>>

\* The calls of a session; the write tool may fail at one write_block call,
\* the dump tool may fail, the timeout may fire in an iteration of the walk
\* (a walk happens only when the start block was read, so a read_string with
\* a failing dump tool has no timeout to add).
Next ==
    \/ \E failAt \in 0..MaxFailAt : WriteString(failAt)
    \/ \E failAt \in 0..MaxFailAt : WriteLongString(failAt)
    \/ \E toolOk \in BOOLEAN, timeoutAt \in 0..MaxTimeoutAt :
           (toolOk \/ timeoutAt = 0) /\ ReadString(toolOk, timeoutAt)
    \/ \E toolOk \in BOOLEAN : GetStringInfo(toolOk)
    \/ RefreshCache

Spec == Init /\ [][Next]_vars

\* ---------------------------------------------------------------- properties

\* The number of blocks the record of text t takes.
BlocksNeeded(t) == Len(RecordBytes(t)) \div BlockSize

\* The data blocks of the card from block b on: not block 0, not a trailer.
FreeBlocksFrom(b, is4kCard) ==
    Cardinality({i \in b..(MaxBlocks(is4kCard) - 1) : i >= 1 /\ ~IsTrailer(i)})

\* The last call was a read_string of a record the last write_string stored.
ReadOfStored == last.op = "read_string" /\ stored

\* The last read_string met no failing block read and no timeout.
CleanRead == ~last.readFailed /\ ~last.timedOut

\* The last write_string met no failing write tool, and no /tmp/card4k.mfd
\* stood in for the card when a written block was read back.
WriteToolWorked ==
    /\ last.failAt = 0 \/ last.failAt > Len(last.plan)
    /\ good = <<>>

\* C1 (as stated): a non-empty string within maxLength that write_string
\* stored at a data block of the card is returned exactly by read_string of
\* that block, whatever its length, when every block read succeeds.
C1_RoundTripAnyLength ==
    (ReadOfStored /\ CleanRead /\ text # <<>>
     /\ startBlock >= 1 /\ ~IsTrailer(startBlock))
        => (last.ok /\ last.result = text)

\* C2 (as stated): no plan of write_string holds block 0 or a trailer block,
\* for any start block it accepts, negative ones included.
C2_NoReservedBlockPlanned ==
    last.op = "write_string" =>
        \A k \in 1..Len(last.plan) : last.plan[k] # 0 /\ ~IsTrailer(last.plan[k])

\* C3 (as stated): write_string of the empty string writes one all-zero block,
\* and read_string of that block returns the empty string, not a failure,
\* reading no second block.
C3_EmptyStringRoundTrip ==
    /\ (last.op = "write_string" /\ text = <<>> /\ last.ok) =>
           /\ Len(last.writes) = 1
           /\ card[last.writes[1] + 1] = Zeros(BlockSize)
    /\ (ReadOfStored /\ CleanRead /\ text = <<>>) =>
           /\ last.ok
           /\ last.result = <<>>
           /\ last.reads = <<startBlock>>

\* The start block read fails the 4-byte-header test and its first two bytes
\* give a length L2 with 0 < L2 <= 1000.
LegacyHeaderSeen ==
    /\ last.op = "read_string"
    /\ last.first # <<>>
    /\ ~(/\ last.first[1] = 0
         /\ 0 < last.first[2] * 65536 + last.first[3] * 256 + last.first[4]
         /\ last.first[2] * 65536 + last.first[3] * 256 + last.first[4] <= maxLength)
    /\ 0 < last.first[1] * 256 + last.first[2]
    /\ last.first[1] * 256 + last.first[2] <= 1000

\* read_string went the legacy way: character count L2, and the bytes
\* collected begin with bytes 2..15 of the start block.
LegacyDecoded ==
    /\ last.ok
    /\ last.fmt = "old"
    /\ last.charCount = last.first[1] * 256 + last.first[2]
    /\ last.headerSize = 2
    /\ Take(last.raw, BlockSize - 2) = SubSeq(last.first, 3, BlockSize)

\* C4 (amended): a start block with a legacy header L2 that fails the
\* 4-byte-header test is decoded via the legacy path, provided L2 <= maxLength.
C4_LegacyPathWithinMaxLength ==
    (LegacyHeaderSeen /\ last.first[1] * 256 + last.first[2] <= maxLength)
        => LegacyDecoded

\* C4 (as stated): every start block with a legacy header L2 that fails the
\* 4-byte-header test is decoded via the legacy path.
C4_LegacyPathAlways == LegacyHeaderSeen => LegacyDecoded

C4_LegacyRecordRead ==
    /\ LegacyHeaderSeen
    /\ LegacyDecoded
    /\ last.result = text
    /\ Len(last.reads) > 1

\* C5: when the record needs more blocks than there are data blocks from the
\* start block to the end of the card, write_string fails, no block is
\* written and the card is unchanged; from a start block of the card on, no
\* write is even attempted.
C5_CapacityExhaustion ==
    (last.op = "write_string" /\ BlocksNeeded(text) > FreeBlocksFrom(startBlock, is4k)) =>
        /\ ~last.ok
        /\ last.writes = <<>>
        /\ ~last.cardChanged
        /\ (startBlock >= 1 => last.attempts = <<>>)

C5_PartialPlanRefused ==
    /\ last.op = "write_string"
    /\ Len(text) <= maxLength
    /\ startBlock >= 1
    /\ BlocksNeeded(text) > FreeBlocksFrom(startBlock, is4k)
    /\ last.plan # <<>>
    /\ last.needed > Len(last.plan)

\* "Hello, world!" is written at block 4 of a 1K card, the write tool working.
HelloAtFour ==
    /\ ~is4k /\ startBlock = 4 /\ text = Hello /\ Len(text) <= maxLength
    /\ last.op = "write_string"
    /\ WriteToolWorked

\* The header 00 00 00 0D opens block 4, and a later read_string(4) returns
\* the text.
HelloStored ==
    /\ last.ok
    /\ SubSeq(card[5], 1, 4) = <<0, 0, 0, 13>>
    /\ ReadStringOp(Dev, is4k, 4, maxLength, TRUE, 0).ok
    /\ ReadStringOp(Dev, is4k, 4, maxLength, TRUE, 0).result = Hello

\* C6 (amended): the record of "Hello, world!" is 4 + 13 = 17 bytes, which
\* takes two blocks: the plan is [4, 5], the header is 00 00 00 0D and
\* read_string(4) returns the text.
C6_HelloTakesTwoBlocks ==
    HelloAtFour => (HelloStored /\ last.plan = <<4, 5>> /\ last.writes = <<4, 5>>)

\* C6 (as stated): the record of "Hello, world!" takes exactly one block, the
\* plan being [4].
C6_HelloTakesOneBlock ==
    HelloAtFour => (HelloStored /\ last.plan = <<4>>)

C6_HelloWritten ==
    /\ HelloAtFour
    /\ last.ok
    /\ card[6] = <<33>> \o Zeros(BlockSize - 1)

\* C7: write_string called with a trailer block of the card as start block,
\* a text within maxLength, room behind the trailer and a working write tool
\* does not fail; its plan begins at the block after the trailer, which is
\* left as it was.
C7_TrailerStartAdvances ==
    (/\ last.op = "write_string"
     /\ WriteToolWorked
     /\ startBlock >= 0 /\ IsTrailer(startBlock)
     /\ Len(text) <= maxLength
     /\ BlocksNeeded(text) <= FreeBlocksFrom(startBlock + 1, is4k)) =>
        /\ last.ok
        /\ last.plan[1] = startBlock + 1
        /\ card[startBlock + 1] = TrailerBlock

C7_StartedAtSeven ==
    /\ last.op = "write_string"
    /\ startBlock = 7
    /\ last.ok
    /\ last.plan[1] = 8
    /\ Len(last.plan) > 1

\* C8: the header write_string writes is the character count of the text,
\* not its UTF-8 byte count, and read_string returns exactly the first
\* charCount characters of what the bytes it collected decode to.
C8_HeaderCountsCharacters ==
    /\ (last.op = "write_string" /\ last.ok) =>
           SubSeq(card[last.plan[1] + 1], 1, 4) = Header4(Len(text))
    /\ (last.op = "read_string" /\ last.ok) =>
           /\ last.result = Take(Decode(last.raw), last.charCount)
           /\ (last.fmt = "new" => last.charCount = BigEndian4(last.first))
    /\ (ReadOfStored /\ last.ok) => last.charCount = Len(text)

C8_FiveCharactersEightBytes ==
    /\ ReadOfStored
    /\ text = Uni5
    /\ Len(Encode(text)) = 8
    /\ last.charCount = 5
    /\ last.result = text
    /\ DecodeLen(last.raw) > 5

\* C9: a read_string that follows a read_string directly returns what that
\* one returned, and no read_string changes a block of the card.
C9_RereadIsIdentical ==
    /\ (last.op = "read_string" /\ last.again) =>
           (last.ok = last.prevOk /\ last.result = last.prevResult)
    /\ last.op = "read_string" => ~last.cardChanged

C9_RecordReadTwice ==
    /\ ReadOfStored
    /\ last.again
    /\ last.ok
    /\ last.result = text
    /\ Len(last.reads) > 1

\* C10: write_string with a text longer than maxLength, or with start block
\* 0, fails without a block read or a block write: the card and the cached
\* dump are as they were.
C10_PreflightRejection ==
    (last.op = "write_string" /\ (Len(text) > maxLength \/ startBlock = 0)) =>
        /\ ~last.ok
        /\ last.attempts = <<>>
        /\ last.plan = <<>>
        /\ ~last.cardChanged
        /\ ~last.dumpChanged

C10_TooLongRefusedWithCache ==
    /\ last.op = "write_string"
    /\ Len(text) > maxLength
    /\ startBlock # 0
    /\ ~last.ok
    /\ dump # <<>>

\* The i-th 16-byte chunk of the record of the caller's text.
ChunkOfText(i) == Slice(RecordBytes(text), (i - 1) * BlockSize, i * BlockSize)

ReadOfStoredLong ==
    last.op = "read_string" /\ storedLong /\ maxLength = DefaultMaxLength

\* C12 (as stated): a non-empty text write_long_string(text, start_sector = S)
\* stored, S >= 1, is returned unchanged by read_string(S * 4) with the
\* default arguments, when every block read succeeds.
C12_LongStringRoundTrip ==
    (ReadOfStoredLong /\ CleanRead /\ text # <<>> /\ startBlock >= 4)
        => (last.ok /\ last.result = text)

\* The last call was a write_string or write_long_string that returned True.
WroteRecord == last.op \in {"write_string", "write_long_string"} /\ last.ok

\* C13: after a write_string whose every write_block returned True, no cached
\* dump is left, and the next read_block of each block written returns the
\* data written to it, with no refresh_cache in between.
C13_ReadYourWrites ==
    WroteRecord =>
        /\ dump = <<>>
        /\ \A i \in 1..Len(last.plan) :
               ReadBlockOp(Dev, is4k, last.plan[i], TRUE).data = ChunkOfText(i)

C13_WroteOverCachedDump ==
    /\ WroteRecord
    /\ last.dumpChanged
    /\ last.cardChanged
    /\ Len(last.plan) >= 2
    /\ ReadBlockOp(Dev, is4k, last.plan[2], TRUE).data = ChunkOfText(2)

\* C14 (as stated): after refresh_cache the next read_block of any block
\* returns what the card holds now, on a 1K and on a 4K card.
C14_RefreshGivesFreshReads ==
    last.op = "refresh_cache" =>
        \A i \in 0..(MaxBlocks(is4k) - 1) :
            ReadBlockOp(Dev, is4k, i, TRUE).data = card[i + 1]

\* The last read_string recognised a header within maxLength and its block
\* walk was cut short, by a failed block read or by the timeout, before
\* charCount characters were collected.
WalkAborted ==
    /\ last.op = "read_string"
    /\ last.fmt # "none"
    /\ last.charCount <= maxLength
    /\ last.timedOut \/ last.readFailed
    /\ DecodeLen(last.raw) < last.charCount

\* C15 (as stated): a read_string whose block walk is cut short before
\* charCount characters are collected returns a failure, not a string.
C15_AbortedWalkFails == WalkAborted => ~last.ok

\* The outcomes of a read_string that returns None after reading the start
\* block: "String too long" and "No valid string header found".
TooLongOutcome == ~last.ok /\ last.fmt # "none" /\ last.charCount > maxLength

NoHeaderOutcome == ~last.ok /\ last.fmt = "none" /\ last.first # <<>>

\* The last call was a read_string of the block where the last
\* write_long_string stored a text of more than maxLength characters.
ReadOfLongerRecord ==
    /\ last.op = "read_string"
    /\ storedLong
    /\ startBlock >= 4
    /\ Len(text) > maxLength
    /\ last.first # <<>>

\* C16 (as stated): read_string of a record whose header holds a length
\* greater than maxLength fails with "String too long", not with "No valid
\* string header found".
C16_TooLongReported == ReadOfLongerRecord => (TooLongOutcome /\ ~NoHeaderOutcome)

\* C17 (as stated): get_string_info of a start block it could read reports
\* a record exactly when the format detection of read_string with the
\* default max_length recognises a header in that block, and then with the
\* same character count and the same format.
C17_InfoAgreesWithDecoder ==
    (last.op = "get_string_info" /\ last.first # <<>>) =>
        /\ last.ok <=> DetectHeader(last.first, DefaultMaxLength).fmt # "none"
        /\ last.ok =>
               /\ last.fmt = DetectHeader(last.first, DefaultMaxLength).fmt
               /\ last.charCount = DetectHeader(last.first, DefaultMaxLength).charCount

\* The j-th byte the last write_string sent: byte j of the blocks it wrote,
\* as the card holds them, in the order of the writes.
SentByte(j) ==
    card[last.writes[((j - 1) \div BlockSize) + 1] + 1][((j - 1) % BlockSize) + 1]

\* The bytes sent are the big-endian count n, the bytes utf8, and zeros up
\* to the end of the last of blocks blocks.
LayoutHolds(n, utf8, blocks) ==
    /\ Len(last.writes) = blocks
    /\ SentByte(1) * 16777216 + SentByte(2) * 65536 + SentByte(3) * 256 + SentByte(4) = n
    /\ \A j \in 1..Len(utf8) : SentByte(4 + j) = utf8[j]
    /\ \A j \in (4 + Len(utf8) + 1)..(blocks * BlockSize) : SentByte(j) = 0

\* C18: the bytes a successful write_string sends are the 4-byte big-endian
\* character count, the UTF-8 bytes of the text and zero bytes up to the next
\* multiple of 16; it writes ceil((4 + UTF-8 length) / 16) blocks, the i-th
\* chunk to the i-th block of the plan.
C18_EncoderLayout ==
    (last.op = "write_string" /\ last.ok) =>
        /\ last.writes = last.plan
        /\ LayoutHolds(Len(text), Encode(text),
                       (4 + Len(Encode(text)) + BlockSize - 1) \div BlockSize)

C18_FourFullBlocksWritten ==
    /\ last.op = "write_string"
    /\ last.ok
    /\ text = MixedPat(30)
    /\ Len(Encode(text)) = 60
    /\ Len(last.writes) = 4
    /\ SentByte(4) = 30
    /\ SentByte(64) = 122

\* The last write_string, called with a start block >= 1, passed its
\* capacity check.
PlanAccepted ==
    /\ last.op = "write_string"
    /\ startBlock >= 1
    /\ last.needed > 0
    /\ Len(last.plan) = last.needed

NonReserved(b) == b # 0 /\ ~IsTrailer(b)

\* C19: a plan that passed the capacity check of write_string, for a start
\* block >= 1, is strictly increasing, has blocksNeeded entries, all below
\* the block count of the card, and holds the lowest non-reserved blocks from
\* the start block on.
C19_AllocationPlanShape ==
    PlanAccepted =>
        /\ Len(last.plan) = BlocksNeeded(text)
        /\ \A k \in 1..(Len(last.plan) - 1) : last.plan[k] < last.plan[k + 1]
        /\ \A k \in 1..Len(last.plan) :
               /\ last.plan[k] >= startBlock
               /\ last.plan[k] < MaxBlocks(is4k)
               /\ NonReserved(last.plan[k])
        /\ \A b \in startBlock..last.plan[Len(last.plan)] :
               NonReserved(b) => \E k \in 1..Len(last.plan) : last.plan[k] = b

C19_PlanAcrossTrailers ==
    /\ PlanAccepted
    /\ startBlock = 7
    /\ last.plan = <<8, 9, 10, 12>>

\* The plan write_string makes for the caller's text from the caller's start
\* block on the card on the reader.
PlanFromStart ==
    AvailableBlocks(IF IsTrailer(startBlock) THEN startBlock + 1 ELSE startBlock,
                    BlocksNeeded(text), MaxBlocks(is4k))

\* C20 (as stated): for a start block >= 1, a trailer block included, the
\* blocks read_string visits from the start block are, one by one, the
\* blocks of the plan write_string made from the same start block.
C20_SameAddressing ==
    (ReadOfStored /\ CleanRead /\ startBlock >= 1) =>
        \A i \in 1..Min(Len(last.reads), Len(PlanFromStart)) :
            last.reads[i] = PlanFromStart[i]

\* The ceiling of read_string on the blocks read after the start block.
WalkCeiling == Min(MaxBlocksToRead, MaxBlocks(is4k) - startBlock)

\* C21: the walk of read_string ends; after the start block it reads at
\* most min(32, block count - start block) blocks, each of them on the card
\* and none of them a trailer block, whatever the card holds.
C21_WalkTerminatesInBounds ==
    last.op = "read_string" =>
        /\ last.finished
        /\ Len(last.reads) - 1 <= WalkCeiling \/ Len(last.reads) = 1
        /\ \A i \in 2..Len(last.reads) :
               /\ last.reads[i] > startBlock
               /\ last.reads[i] < MaxBlocks(is4k)
               /\ ~IsTrailer(last.reads[i])

C21_CeilingReached ==
    /\ last.op = "read_string"
    /\ last.finished
    /\ CleanRead
    /\ Len(last.reads) - 1 = MaxBlocksToRead
    /\ DecodeLen(last.raw) < last.charCount

\* The least number of blocks a record of n characters with a header of h
\* bytes takes: one byte for a character.
MinBlocksFor(h, n) == (h + n + BlockSize - 1) \div BlockSize

\* C22 (as stated): for a stored record with 0 < charCount <= maxLength the
\* start block and the ceiling on the blocks read after it cover the least
\* number of blocks charCount characters take, and the walk collects
\* charCount characters: the ceiling does not stop it.
C22_CeilingCoversRecord ==
    (ReadOfStored /\ CleanRead /\ startBlock >= 1 /\ ~IsTrailer(startBlock)
     /\ last.fmt # "none" /\ 0 < last.charCount /\ last.charCount <= maxLength) =>
        /\ 1 + WalkCeiling >= MinBlocksFor(last.headerSize, last.charCount)
        /\ DecodeLen(last.raw) >= last.charCount

\* The bytes the last read_string had collected when it read the i-th block
\* of its walk (i >= 2): the payload of the start block and the i - 2 blocks
\* read before.
RawBefore(i) == Take(last.raw, (BlockSize - last.headerSize) + BlockSize * (i - 2))

\* The i-th block read was appended to the bytes collected.
AppendedAt(i) ==
    /\ Len(last.raw) >= (BlockSize - last.headerSize) + BlockSize * (i - 1)
    /\ Slice(last.raw, Len(RawBefore(i)), Len(RawBefore(i)) + BlockSize)
         = dump[last.reads[i] + 1]

\* The last read_string walked from a header it recognised, all reads good.
WalkedClean ==
    /\ last.op = "read_string"
    /\ last.fmt # "none"
    /\ last.first # <<>>
    /\ ~last.readFailed

\* C23: an all-zero block read while the bytes collected decode to fewer
\* than charCount characters is appended; an all-zero block ends the walk,
\* and is left out, only when they decode to at least charCount characters.
C23_ZeroBlocksInWalk ==
    WalkedClean =>
        \A i \in 2..Len(last.reads) :
            dump[last.reads[i] + 1] = Zeros(BlockSize) =>
                IF DecodeLen(RawBefore(i)) < last.charCount
                THEN AppendedAt(i)
                ELSE i = Len(last.reads) /\ Len(last.raw) = Len(RawBefore(i))

C23_ZeroBlockAppended ==
    /\ WalkedClean
    /\ Len(last.reads) >= 3
    /\ dump[last.reads[2] + 1] = Zeros(BlockSize)
    /\ DecodeLen(RawBefore(2)) < last.charCount
    /\ AppendedAt(2)

\* ------------------------------------------- example_5_data_storage

\* start_block of the example, and the step of current_block
StoreStartBlock == 4
StoreStride == 2

\* The days time.strftime('%Y-%m-%d') gives the example: "2025-10-04",
\* "2025-10-05".
StoreDates ==
    {<<50, 48, 50, 53, 45, 49, 48, 45, 48, 52>>,
     <<50, 48, 50, 53, 45, 49, 48, 45, 48, 53>>}

\* data_items as the strings f"{label}: {value}": "Name: John Doe",
\* "Department: Engineering", "Access Level: 2", "Issued: " and the day.
DataItems(day) ==
    << <<78, 97, 109, 101, 58, 32, 74, 111, 104, 110, 32, 68, 111, 101>>,
       <<68, 101, 112, 97, 114, 116, 109, 101, 110, 116, 58, 32, 69, 110, 103,
         105, 110, 101, 101, 114, 105, 110, 103>>,
       <<65, 99, 99, 101, 115, 115, 32, 76, 101, 118, 101, 108, 58, 32, 50>>,
       <<73, 115, 115, 117, 101, 100, 58, 32>> \o day >>

\* The cards the example is run on: blank or full of left-over data.
StoreImages(is4kCard) ==
    {ImageOf(MaxBlocks(is4kCard), Zeros(BlockSize)),
     ImageOf(MaxBlocks(is4kCard), NoiseBlock)}

InitStore ==
    /\ is4k \in BOOLEAN
    /\ card \in StoreImages(is4k)
    /\ dump = <<>>
    /\ good \in GoodDumps(is4k, <<>>)
    /\ text = <<>>
    /\ startBlock = StoreStartBlock
    /\ maxLength = DefaultMaxLength
    /\ stored = FALSE
    /\ storedLong = FALSE
    /\ \E day \in StoreDates :
           store = [NoStore EXCEPT !.pc = "start", !.item = 1] @@ [items |-> DataItems(day)]
    /\ sensor = NoSensor
    /\ last = NoCall

\* if not rfid.is_card_present(): return False
StoreStart(present) ==
    /\ store.pc = "start"
    /\ store' = [store EXCEPT !.pc = IF present THEN "write" ELSE "failed"]
    /\ UNCHANGED <<is4k, card, dump, good, text, startBlock, maxLength, stored,
                   storedLong, sensor, last>>

\* One turn of the writing loop: write_string(current_block, data_string),
\* return False when it fails, current_block += 2; after the last item
\* current_block = start_block.
StoreWrite(failAt) ==
    /\ store.pc = "write"
    /\ \E r \in {WriteStringOp(Dev, is4k, startBlock, store.items[store.item],
                               DefaultMaxLength, failAt)} :
        /\ card' = r.dev.card
        /\ dump' = r.dev.dump
        /\ good' = r.dev.good
        /\ text' = store.items[store.item]
        /\ stored' = r.ok
        /\ last' = [NoCall EXCEPT !.op = "write_string", !.ok = r.ok, !.plan = r.plan,
                                  !.needed = r.needed, !.attempts = r.attempts,
                                  !.writes = r.writes, !.failAt = failAt,
                                  !.cardChanged = (r.dev.card # card),
                                  !.dumpChanged = (r.dev.dump # dump)]
        /\ store' = IF ~r.ok THEN [store EXCEPT !.pc = "failed"]
                    ELSE IF store.item = Len(store.items)
                    THEN [store EXCEPT !.pc = "read", !.item = 1,
                                       !.plans = Append(@, r.plan)]
                    ELSE [store EXCEPT !.item = @ + 1, !.plans = Append(@, r.plan)]
        /\ startBlock' = IF ~r.ok THEN startBlock
                         ELSE IF store.item = Len(store.items) THEN StoreStartBlock
                         ELSE startBlock + StoreStride
        /\ UNCHANGED <<is4k, maxLength, storedLong, sensor>>

\* One turn of the reading loop: read_string(current_block), print what it
\* gave, current_block += 2; return True after the last item.
StoreRead(toolOk, timeoutAt) ==
    /\ store.pc = "read"
    /\ \E r \in {ReadStringOp(Dev, is4k, startBlock, DefaultMaxLength, toolOk, timeoutAt)} :
        /\ card' = r.dev.card
        /\ dump' = r.dev.dump
        /\ good' = r.dev.good
        /\ last' = [NoCall EXCEPT !.op = "read_string", !.ok = r.ok, !.result = r.result,
                                  !.reads = r.reads, !.fmt = r.fmt,
                                  !.charCount = r.charCount, !.headerSize = r.headerSize,
                                  !.first = r.first, !.raw = r.raw,
                                  !.timedOut = r.timedOut, !.readFailed = r.readFailed,
                                  !.finished = r.finished,
                                  !.cardChanged = (r.dev.card # card),
                                  !.dumpChanged = (r.dev.dump # dump)]
        /\ store' = [store EXCEPT !.pc = IF store.item = Len(store.items)
                                         THEN "done" ELSE "read",
                                  !.item = @ + 1,
                                  !.back = Append(@, [ok |-> r.ok, result |-> r.result]),
                                  !.clean = @ /\ ~r.timedOut /\ ~r.readFailed]
        /\ startBlock' = startBlock + StoreStride
        /\ UNCHANGED <<is4k, text, maxLength, stored, storedLong, sensor>>

NextStore ==
    \/ \E present \in BOOLEAN : StoreStart(present)
    \/ \E failAt \in 0..MaxFailAt : StoreWrite(failAt)
    \/ \E toolOk \in BOOLEAN, timeoutAt \in 0..MaxTimeoutAt :
           (toolOk \/ timeoutAt = 0) /\ StoreRead(toolOk, timeoutAt)

SpecStore == InitStore /\ [][NextStore]_vars

\* The blocks of a plan.
BlocksOf(plan) == {plan[i] : i \in 1..Len(plan)}

\* C24 (as stated): when the example has written its four records and read
\* them back with every read good, the four records lie in pairwise
\* disjoint sets of blocks and the k-th read_string returned the k-th
\* record.
C24_StoreHasNoOverlap ==
    (store.pc = "done" /\ store.clean) =>
        /\ \A j, k \in 1..Len(store.plans) :
               j # k => BlocksOf(store.plans[j]) \cap BlocksOf(store.plans[k]) = {}
        /\ \A k \in 1..Len(store.items) :
               store.back[k].ok /\ store.back[k].result = store.items[k]

\* ------------------------------------------- sessions of block calls

\* A block of a demo card: b'TEST-4K' and zeros.
DemoBlock == DemoPattern \o Zeros(BlockSize - Len(DemoPattern))

\* The cards of a session of block calls: blank, full of left-over data,
\* and, for the 4K reader path that looks for it, a demo card.
BlockImages(is4kCard) ==
    {ImageOf(MaxBlocks(is4kCard), Zeros(BlockSize)),
     ImageOf(MaxBlocks(is4kCard), NoiseBlock)}
    \cup (IF is4kCard THEN {ImageOf(Blocks4K, DemoBlock)} ELSE {})

\* The block numbers and the data of the calls.
BlockNums == {0, 1, 3}

BlockData == {Zeros(BlockSize), NoiseBlock}

InitBlocks ==
    /\ is4k \in BOOLEAN
    /\ card \in BlockImages(is4k)
    /\ dump = <<>>
    /\ good \in GoodDumps(is4k, <<>>)
    /\ text = <<>>
    /\ startBlock = 0
    /\ maxLength = DefaultMaxLength
    /\ stored = FALSE
    /\ storedLong = FALSE
    /\ store = NoStore
    /\ sensor = NoSensor
    /\ last = NoCall

\* write_block ran the write tool: the checks of its arguments passed and
\* read_card_raw gave it a dump to patch.
WriteSent(dev, is4kCard, b, data, confirm, fault) ==
    /\ Len(data) = BlockSize
    /\ 0 <= b /\ b <= MaxBlocks(is4kCard) - 1
    /\ b # 0
    /\ IsTrailer(b) => confirm
    /\ ReadCardRaw(dev, is4kCard, fault # "readfail").data # <<>>

\* rfid.read_block(b)
ReadBlock(b, toolOk) ==
    \E r \in {ReadBlockOp(Dev, is4k, b, toolOk)} :
        /\ card' = r.dev.card
        /\ dump' = r.dev.dump
        /\ good' = r.dev.good
        /\ startBlock' = b
        /\ last' = [NoCall EXCEPT !.op = "read_block", !.ok = (r.data # <<>>),
                                  !.data = r.data, !.before = card,
                                  !.dumpChanged = (r.dev.dump # dump)]
        /\ UNCHANGED <<is4k, text, maxLength, stored, storedLong, callers>>

\* rfid.write_block(b, data)
WriteBlock(b, data, confirm, fault) ==
    \E r \in {WriteBlockOp(Dev, is4k, b, data, confirm, fault)} :
        /\ card' = r.dev.card
        /\ dump' = r.dev.dump
        /\ good' = r.dev.good
        /\ startBlock' = b
        /\ last' = [NoCall EXCEPT !.op = "write_block", !.ok = r.ok,
                                  !.data = data, !.before = card,
                                  !.sent = WriteSent(Dev, is4k, b, data, confirm, fault),
                                  !.cardChanged = (r.dev.card # card),
                                  !.dumpChanged = (r.dev.dump # dump)]
        /\ UNCHANGED <<is4k, text, maxLength, stored, storedLong, callers>>

\* The card is taken off the reader and another of its type is put on it,
\* or its content is changed by another program.
CardSwapped(img) ==
    /\ img # card
    /\ card' = img
    /\ last' = [NoCall EXCEPT !.op = "outside", !.before = card, !.cardChanged = TRUE]
    /\ UNCHANGED <<is4k, dump, good, text, startBlock, maxLength, stored, storedLong,
                   callers>>

NextBlocks ==
    \/ \E b \in BlockNums, toolOk \in BOOLEAN : ReadBlock(b, toolOk)
    \/ \E b \in BlockNums, data \in BlockData, confirm \in BOOLEAN,
          fault \in {"none", "readfail", "writefail"} :
           (confirm \/ IsTrailer(b)) /\ WriteBlock(b, data, confirm, fault)
    \/ RefreshCache
    \/ \E img \in BlockImages(is4k) : CardSwapped(img)

SpecBlocks == InitBlocks /\ [][NextBlocks]_vars

\* C25 (as stated): when write_block has run the write tool and returns
\* False, no cached dump is left.
C25_CacheDroppedOnFailedWrite ==
    (last.op = "write_block" /\ last.sent /\ ~last.ok) => dump = <<>>

\* C28 (as stated): a write_block that returned True left every block of
\* the card but its own as the card had it when the call began.
C28_WriteBlockFrame ==
    (last.op = "write_block" /\ last.ok) =>
        \A i \in 1..Len(card) : i # startBlock + 1 => card[i] = last.before[i]

\* ------------------------------------------- the header tests of read_string

\* A test for the 4-byte header that takes any length.
CurrentTestUnbounded(blk, maxLen) ==
    /\ 0 < BigEndian4(blk)
    /\ blk[1] = 0 \/ (blk[1] = 0 /\ blk[2] = 0)

\* 0 < length_4byte <= max_length and (block_data[0] == 0 or ...)
CurrentTest(blk, maxLen) ==
    /\ 0 < BigEndian4(blk)
    /\ BigEndian4(blk) <= maxLen
    /\ blk[1] = 0 \/ (blk[1] = 0 /\ blk[2] = 0)

\* 0 < length_2byte <= 1000
LegacyTest(blk) ==
    /\ 0 < blk[1] * 256 + blk[2]
    /\ blk[1] * 256 + blk[2] <= LegacyMaxLength

\* The first four bytes of the start blocks read: the headers write_string
\* makes for 1, 9984, 10000 and 10001 characters are among them, and the
\* 2-byte headers for 1, 1000 and 1001.
HeaderBytes ==
    {<<b0, b1, b2, b3>> : b0 \in {0, 3, 4}, b1 \in {0, 1, 232, 233},
                          b2 \in {0, 39, 255}, b3 \in {0, 1, 16, 17}}

\* A card whose block b starts with the bytes h.
HeaderImage(b, h) ==
    [ImageOf(Blocks1K, Zeros(BlockSize)) EXCEPT
        ![b + 1] = h \o Zeros(BlockSize - Len(h))]

\* The values of max_length up to the largest the manager uses.
HeaderMaxLengths == {SmallMaxLength, DefaultMaxLength, LongMaxLength}

InitHeader ==
    /\ is4k = FALSE
    /\ startBlock = Blocks1K - BlockSize \div 4
    /\ \E h \in HeaderBytes : card = HeaderImage(startBlock, h)
    /\ dump = <<>>
    /\ good = <<>>
    /\ text = <<>>
    /\ maxLength \in HeaderMaxLengths
    /\ stored = FALSE
    /\ storedLong = FALSE
    /\ store = NoStore
    /\ sensor = NoSensor
    /\ last = NoCall

NextHeader ==
    \E toolOk \in BOOLEAN, timeoutAt \in 0..MaxTimeoutAt :
        (toolOk \/ timeoutAt = 0) /\ ReadString(toolOk, timeoutAt)

SpecHeader == InitHeader /\ [][NextHeader]_vars

\* C26: for max_length up to 10000 no start block passes both the test for
\* the 4-byte header and the test for the 2-byte header, so read_string
\* takes a block for the 4-byte format exactly when it passes the first and
\* for the 2-byte format exactly when it passes the second; a header made
\* by write_string for 1 to max_length characters is taken for the 4-byte
\* format.
C26_HeaderTestsExclusive ==
    /\ ~(CurrentTest(card[startBlock + 1], maxLength) /\ LegacyTest(card[startBlock + 1]))
    /\ (last.op = "read_string" /\ last.first # <<>>) =>
           /\ last.fmt = "new" <=> CurrentTest(last.first, maxLength)
           /\ last.fmt = "old" <=> LegacyTest(last.first)
           /\ (1 <= BigEndian4(last.first) /\ BigEndian4(last.first) <= maxLength
               /\ Take(last.first, 4) = Header4(BigEndian4(last.first))) =>
                  last.fmt = "new" /\ last.charCount = BigEndian4(last.first)

C26_LegacyHeaderRead ==
    /\ last.op = "read_string"
    /\ last.fmt = "old"
    /\ last.first[1] = 0
    /\ BigEndian4(last.first) > maxLength

\* ------------------------------------------- records up to the reach of the walk

\* The strings of the sessions that go up to what read_string can collect:
\* short ones, and one of exactly WalkCapacity UTF-8 bytes, which goes to
\* the 1K card.
ReachTexts(is4kCard) ==
    {Hello, MixedPat(MaxUsedCardText)}
    \cup (IF is4kCard THEN {}
          ELSE {WidePat(WalkCapacity \div 4)})

ReachStartBlocks == {1, StoreStartBlock}

InitReach ==
    /\ is4k \in BOOLEAN
    /\ startBlock \in ReachStartBlocks
    /\ text \in ReachTexts(is4k)
    /\ maxLength \in MaxLengths
    /\ card \in StoreImages(is4k)
    /\ dump = <<>>
    /\ good = <<>>
    /\ stored = FALSE
    /\ storedLong = FALSE
    /\ store = NoStore
    /\ sensor = NoSensor
    /\ last = NoCall

NextReach ==
    \/ \E failAt \in 0..MaxFailAt : WriteString(failAt)
    \/ \E toolOk \in BOOLEAN, timeoutAt \in 0..MaxTimeoutAt :
           (toolOk \/ timeoutAt = 0) /\ ReadString(toolOk, timeoutAt)
    \/ RefreshCache

SpecReach == InitReach /\ [][NextReach]_vars

\* C27: a non-empty string of at most maxLength characters and at most
\* WalkCapacity (524) UTF-8 bytes that write_string stored at a data block
\* from 1 on is returned exactly by read_string of that block when every
\* block read succeeds, whatever the card holds after the record.
C27_BoundedRoundTrip ==
    (ReadOfStored /\ CleanRead /\ text # <<>> /\ Len(text) <= maxLength
     /\ Len(Encode(text)) <= WalkCapacity
     /\ startBlock >= 1 /\ ~IsTrailer(startBlock))
        => (last.ok /\ last.result = text)

C27_FullReachRecordRead ==
    /\ ReadOfStored
    /\ CleanRead
    /\ Len(Encode(text)) = WalkCapacity
    /\ Len(last.reads) = 1 + MaxBlocksToRead
    /\ card[last.reads[Len(last.reads)] + 2] = NoiseBlock
    /\ last.result = text

\* ------------------------------------------- read_long_string of the PN532 scripts

\* max_len of read_long_string, and the last block of the card it knows
LegacyReaderMaxLen == 900
LegacyLastBlock == 63

\* is_trailer_block
IsTrailerBlock(b) == b % 4 = 3

\* next_data_block
NextDataBlock(b) == IF IsTrailerBlock(b + 1) THEN b + 2 ELSE b + 1

\* The record the scripts read: the byte count of the UTF-8 data in two
\* bytes, big-endian, then the data.
ByteRecord(t) == PadToBlock(<<Len(Encode(t)) \div 256, Len(Encode(t)) % 256>> \o Encode(t))

\* The k data blocks of a record from block b on.
RECURSIVE DataBlocksFrom(_, _)
DataBlocksFrom(b, k) ==
    IF k = 0 THEN <<>> ELSE <<b>> \o DataBlocksFrom(NextDataBlock(b), k - 1)

RecordPlan(start, t) == DataBlocksFrom(start, Len(ByteRecord(t)) \div BlockSize)

\* The card base with the record of t laid from block start; what lies
\* past the last block of the card is not stored.
RecordImage(base, start, t) ==
    [i \in 1..Len(base) |->
        IF \E k \in 1..Len(RecordPlan(start, t)) : RecordPlan(start, t)[k] = i - 1
        THEN Slice(ByteRecord(t),
                   ((CHOOSE k \in 1..Len(RecordPlan(start, t)) :
                         RecordPlan(start, t)[k] = i - 1) - 1) * BlockSize,
                   (CHOOSE k \in 1..Len(RecordPlan(start, t)) :
                         RecordPlan(start, t)[k] = i - 1) * BlockSize)
        ELSE base[i]]

\* One turn of "while copied < length": st = [data, copied, blockNum, iter,
\* reads, ok, failed, done]; the authentication (fault "auth") or the read
\* (fault "read") of turn at fails; a block that is not on the card cannot
\* be authenticated.
LongLoopStep(st, cardNow, length, fault, at) ==
    IF st.done THEN st
    ELSE IF ~(st.copied < length) THEN [st EXCEPT !.done = TRUE, !.ok = TRUE]
    ELSE IF (fault # "none" /\ at = st.iter) \/ st.blockNum >= Len(cardNow)
    THEN [st EXCEPT !.done = TRUE, !.failed = TRUE]
    ELSE [st EXCEPT
             !.data = @ \o Take(cardNow[st.blockNum + 1], Min(BlockSize, length - st.copied)),
             !.copied = @ + Min(BlockSize, length - st.copied),
             !.reads = Append(@, st.blockNum),
             !.blockNum = NextDataBlock(st.blockNum),
             !.iter = @ + 1,
             !.done = NextDataBlock(st.blockNum) > LegacyLastBlock]

RECURSIVE LongLoop(_, _, _, _, _, _)
LongLoop(st, k, cardNow, length, fault, at) ==
    IF k = 0 \/ st.done THEN st
    ELSE LongLoop(LongLoopStep(st, cardNow, length, fault, at), k - 1,
                  cardNow, length, fault, at)

\* read_long_string once the start block is read: None for a length over
\* max_len, "" for length 0, else the loop and the decoding.
LongFromFirst(block, cardNow, start, maxLen, fault, at) ==
    IF block[1] * 256 + block[2] = 0
    THEN [ok |-> TRUE, result |-> <<>>, length |-> 0, reads |-> <<start>>, failed |-> FALSE]
    ELSE IF block[1] * 256 + block[2] > maxLen
    THEN [ok |-> FALSE, result |-> <<>>, length |-> block[1] * 256 + block[2],
          reads |-> <<start>>, failed |-> FALSE]
    ELSE \* at most one turn for a block of the card, and one to leave the loop
         LET w == LongLoop([data |-> Slice(block, 2, 2 + Min(BlockSize - 2,
                                                          block[1] * 256 + block[2])),
                            copied |-> Min(BlockSize - 2, block[1] * 256 + block[2]),
                            blockNum |-> NextDataBlock(start), iter |-> 1,
                            reads |-> <<start>>, ok |-> FALSE, failed |-> FALSE,
                            done |-> FALSE],
                           Len(cardNow) + 1, cardNow, block[1] * 256 + block[2], fault, at)
         IN  [ok |-> w.ok, result |-> IF w.ok THEN Decode(w.data) ELSE <<>>,
              length |-> block[1] * 256 + block[2], reads |-> w.reads,
              failed |-> w.failed]

\* read_long_string(uid, start, max_len); ok = FALSE models None.  A fault
\* of turn 0 is one of the start block: without authentication the read
\* gives None.
ReadLongStringOp(cardNow, start, maxLen, fault, at) ==
    IF fault # "none" /\ at = 0
    THEN [ok |-> FALSE, result |-> <<>>, length |-> 0, reads |-> <<>>, failed |-> TRUE]
    ELSE LongFromFirst(cardNow[start + 1], cardNow, start, maxLen, fault, at)

\* The strings on the cards the scripts read: of 13, 8, 14, 30, 31 and 46
\* bytes.
LegacyReaderTexts == {Hello, Uni5, AsciiPat(BlockSize - 2), AsciiPat(2 * BlockSize - 2),
                      AsciiPat(2 * BlockSize - 1), AsciiPat(3 * BlockSize - 2)}

\* The start blocks: the one the scripts use, and the last data blocks.
LegacyReaderStarts == {StoreStartBlock, LegacyLastBlock - 3, LegacyLastBlock - 2,
                       LegacyLastBlock - 1}

\* The turn of the loop a fault falls in.
MaxFaultAt == 2

InitLegacyReader ==
    /\ is4k = FALSE
    /\ startBlock \in LegacyReaderStarts
    /\ text \in LegacyReaderTexts
    /\ maxLength \in {LegacyReaderMaxLen, MaxUsedCardText}
    /\ \E base \in StoreImages(FALSE) : card = RecordImage(base, startBlock, text)
    /\ dump = <<>>
    /\ good = <<>>
    /\ stored = FALSE
    /\ storedLong = FALSE
    /\ store = NoStore
    /\ sensor = NoSensor
    /\ last = NoCall

\* read_long_string(uid, startBlock, maxLength)
ReadLongString(fault, at) ==
    \E r \in {ReadLongStringOp(card, startBlock, maxLength, fault, at)} :
        /\ last' = [NoCall EXCEPT !.op = "read_long_string", !.ok = r.ok,
                                  !.result = r.result, !.charCount = r.length,
                                  !.reads = r.reads, !.readFailed = r.failed,
                                  !.failAt = at]
        /\ UNCHANGED <<is4k, card, dump, good, text, startBlock, maxLength, stored,
                       storedLong, callers>>

NextLegacyReader ==
    \E fault \in {"none", "auth", "read"}, at \in 0..MaxFaultAt :
        (fault # "none" \/ at = 0) /\ ReadLongString(fault, at)

SpecLegacyReader == InitLegacyReader /\ [][NextLegacyReader]_vars

\* The record of the caller's string lies whole in data blocks up to 62.
RecordFits ==
    \A k \in 1..Len(RecordPlan(startBlock, text)) :
        RecordPlan(startBlock, text)[k] < LegacyLastBlock

\* C29 (as stated): read_long_string returns the string of every stored
\* record of 1 to max_len bytes whose blocks lie up to block 62, when no
\* authentication and no read fails; it returns None only for a failed
\* authentication or read, a length over max_len or a record that does not
\* fit.
C29_LegacyReaderAtEndOfCard ==
    last.op = "read_long_string" =>
        /\ (RecordFits /\ Len(Encode(text)) <= maxLength /\ ~last.readFailed) =>
               (last.ok /\ last.result = text)
        /\ ~last.ok =>
               (last.readFailed \/ Len(Encode(text)) > maxLength \/ ~RecordFits)

\* ------------------------------------------- FinalFingerprintCrypto

\* max_attempts and the confidence threshold of
\* verify_identity_with_stored_templates
MaxAttempts == 3
MinConfidence == 30

\* The template locations of the sensor in the model: 0..MaxFingerId.
MaxFingerId == 1

FingerIds == 0..MaxFingerId

\* What an attempt can meet: no finger within the timeout, no match, or a
\* match with a location and a confidence.
Outcomes ==
    {[kind |-> "timeout", id |-> -1, confidence |-> 0],
     [kind |-> "notfound", id |-> -1, confidence |-> 0]}
    \cup {[kind |-> "match", id |-> i, confidence |-> c] :
             i \in FingerIds, c \in {MinConfidence - 1, MinConfidence}}

\* not x, for x an identity or None (-1)
Falsy(id) == id = -1 \/ id = 0

\* verify_identity_with_stored_templates from attempt i on: the identity of
\* the first attempt that matches a stored id with confidence >= 30, or
\* None (-1).
RECURSIVE VerifyFrom(_, _, _)
VerifyFrom(storedIds, tries, i) ==
    IF i > MaxAttempts THEN -1
    ELSE IF tries[i].kind = "match" /\ tries[i].confidence >= MinConfidence
            /\ tries[i].id \in storedIds
    THEN tries[i].id
    ELSE VerifyFrom(storedIds, tries, i + 1)

\* authenticate_fingerprint
AuthenticateFingerprint(storedIds, tries) == VerifyFrom(storedIds, tries, 1)

\* get_fingerprint_key: the key stands for the template it is derived
\* from, one for a location; <<>> models None.
GetFingerprintKey(id, templateOk) == IF templateOk THEN <<id>> ELSE <<>>

NoCrypto ==
    [ok |-> FALSE, identity |-> -1, authFailed |-> FALSE, derived |-> FALSE,
     cipher |-> <<>>, message |-> <<>>]

\* encrypt_message and decrypt_message once the identity is settled.
WithKey(r, key, message) ==
    IF key = <<>> THEN [r EXCEPT !.derived = TRUE]
    ELSE [r EXCEPT !.derived = TRUE, !.ok = TRUE,
                   !.cipher = [key |-> key, message |-> message]]

\* encrypt_message(message, finger_id): argId = -1 models finger_id = None.
EncryptFrom(auth, message, argId, templateOk) ==
    IF argId = -1 /\ Falsy(auth)
    THEN [NoCrypto EXCEPT !.identity = auth, !.authFailed = TRUE]
    ELSE WithKey([NoCrypto EXCEPT !.identity = IF argId = -1 THEN auth ELSE argId],
                 GetFingerprintKey(IF argId = -1 THEN auth ELSE argId, templateOk),
                 message)

EncryptMessageOp(storedIds, message, argId, tries, templateOk) ==
    EncryptFrom(IF argId = -1 THEN AuthenticateFingerprint(storedIds, tries) ELSE -1,
                message, argId, templateOk)

\* The plaintext of decrypt_message: the message under the key it was made
\* with; under another key bytes that either do not decode (None) or decode
\* to something else ("?").
Decrypted(r, key, cipher, garbled) ==
    IF key = <<>> THEN [r EXCEPT !.derived = TRUE]
    ELSE IF key = cipher.key
    THEN [r EXCEPT !.derived = TRUE, !.ok = TRUE, !.message = cipher.message]
    ELSE IF garbled THEN [r EXCEPT !.derived = TRUE]
    ELSE [r EXCEPT !.derived = TRUE, !.ok = TRUE, !.message = <<63>>]

DecryptFrom(auth, cipher, templateOk, garbled) ==
    IF Falsy(auth)
    THEN [NoCrypto EXCEPT !.identity = auth, !.authFailed = TRUE]
    ELSE Decrypted([NoCrypto EXCEPT !.identity = auth],
                   GetFingerprintKey(auth, templateOk), cipher, garbled)

DecryptMessageOp(storedIds, cipher, tries, templateOk, garbled) ==
    DecryptFrom(AuthenticateFingerprint(storedIds, tries), cipher, templateOk, garbled)

\* The crypto object after connect_sensor, with the locations enrolled on
\* the sensor as stored_ids.
InitCrypto ==
    /\ is4k = FALSE
    /\ card = <<>>
    /\ dump = <<>>
    /\ good = <<>>
    /\ text \in {Hello, Uni5}
    /\ startBlock = 0
    /\ maxLength = DefaultMaxLength
    /\ stored = FALSE
    /\ storedLong = FALSE
    /\ store = NoStore
    /\ \E ids \in SUBSET FingerIds : sensor = [NoSensor EXCEPT !.storedIds = ids]
    /\ last = NoCall

\* crypto.encrypt_message(text, finger_id)
EncryptMessage(argId, tries, templateOk) ==
    \E r \in {EncryptMessageOp(sensor.storedIds, text, argId, tries, templateOk)} :
        /\ sensor' = IF r.ok THEN [sensor EXCEPT !.cipher = r.cipher] ELSE sensor
        /\ last' = [NoCall EXCEPT !.op = "encrypt_message", !.ok = r.ok,
                                  !.identity = r.identity, !.derived = r.derived,
                                  !.authFailed = r.authFailed, !.again = (argId # -1)]
        /\ UNCHANGED <<is4k, card, dump, good, text, startBlock, maxLength, stored,
                       storedLong, store>>

\* crypto.decrypt_message(encrypted_data) for the last ciphertext
DecryptMessage(tries, templateOk, garbled) ==
    /\ sensor.cipher # <<>>
    /\ \E r \in {DecryptMessageOp(sensor.storedIds, sensor.cipher, tries, templateOk,
                                  garbled)} :
        /\ last' = [NoCall EXCEPT !.op = "decrypt_message", !.ok = r.ok,
                                  !.result = r.message,
                                  !.identity = r.identity, !.derived = r.derived,
                                  !.authFailed = r.authFailed]
        /\ UNCHANGED <<is4k, card, dump, good, text, startBlock, maxLength, stored,
                       storedLong, callers>>

NextCrypto ==
    \/ \E argId \in {-1} \cup FingerIds, tries \in [1..MaxAttempts -> Outcomes],
          templateOk \in BOOLEAN : EncryptMessage(argId, tries, templateOk)
    \/ \E tries \in [1..MaxAttempts -> Outcomes], templateOk \in BOOLEAN,
          garbled \in BOOLEAN : DecryptMessage(tries, templateOk, garbled)

SpecCrypto == InitCrypto /\ [][NextCrypto]_vars

\* C30 (as stated): when the sensor matched a stored identity, location 0
\* included, with confidence of at least 30, encrypt_message called without
\* finger_id and decrypt_message go on to derive the key; they give up as
\* "authentication failed" only when no identity was matched.
C30_GateAcceptsEveryIdentity ==
    ((last.op = "encrypt_message" /\ ~last.again) \/ last.op = "decrypt_message") =>
        /\ last.identity \in sensor.storedIds => last.derived
        /\ last.authFailed => last.identity = -1

====
